---- MODULE Spec2Model ----
(***************************************************************************)
(* Model of src/table.js: the Table controller of an editable HTML table. *)
(*                                                                         *)
(* A <td> is modelled by the one thing the controller ever changes on it:  *)
(* whether its classList contains CSS.highlight.  A <tr> is the sequence   *)
(* of its cells and the <table> the sequence of its rows.  The reference   *)
(* this._selectedCell is modelled by where the referenced cell currently   *)
(* is: in a row of the table, in a <tr> that was removed from the table,   *)
(* or on its own after it was removed from its row.  The DOM primitives    *)
(* move that location along with the cell.  Of a detached row the          *)
(* controller can read only the selected cell's index and class, so only   *)
(* those are kept.                                                         *)
(*                                                                         *)
(* DOM indices are 0-based (cellIndex, rowIndex, insertCell, ...), TLA+    *)
(* sequences are 1-based; the conversion is explicit in each primitive.    *)
(***************************************************************************)
EXTENDS Integers, Sequences, FiniteSets

\* Bounds of the exploration.
MaxRows == 2
MaxCols == 2
MaxCells == 3
MaxSkew == 1

VARIABLES
    table,            \* this._table.rows
    detachedHighlight, \* the selected cell's highlight class, when it is outside the table
    selectedCell,     \* this._selectedCell
    numberOfRows,     \* this._numberOfRows
    numberOfColumns,  \* this._numberOfColumns
    dispatched,       \* 'mouseInActivatingArea' events the last step dispatched
    last              \* the last call or event handled and its outcome

vars == <<table, detachedHighlight, selectedCell, numberOfRows, numberOfColumns,
          dispatched, last>>

\* References to elements.  in: "table" a cell (or, with col = 0, a row) of
\* the table; "tr" a cell of the detached row (or that row); "td" a cell
\* without a parent; "null" no element.
Ref(in, row, col) == [in |-> in, row |-> row, col |-> col]

null == Ref("null", 0, 0)

NoError == "none"
IndexSizeError == "IndexSizeError"
TypeError == "TypeError"
ReferenceError == "ReferenceError"

\* Values a caller may pass as direction; the code clamps them.
Directions == {-1, 0, 1, 2}

Min(a, b) == IF a < b THEN a ELSE b
Max(a, b) == IF a > b THEN a ELSE b

\* The controller's fields as one record, so that the methods compose.
State ==
    [table |-> table, detachedHighlight |-> detachedHighlight,
     selectedCell |-> selectedCell,
     numberOfRows |-> numberOfRows, numberOfColumns |-> numberOfColumns]

\* The cells of the table, as references.
CellRefs(tbl) ==
    UNION {{Ref("table", r, c) : c \in 1..Len(tbl[r])} : r \in 1..Len(tbl)}

\* A detached cell nobody references any more is garbage.
Collect(s) ==
    IF s.selectedCell.in \in {"tr", "td"} THEN s
    ELSE [s EXCEPT !.detachedHighlight = FALSE]

----------------------------------------------------------------------------
\* DOM primitives used by the controller.

\* cell.classList.contains(CSS.highlight)
hasHighlight(s, cell) ==
    IF cell.in = "table" THEN s.table[cell.row][cell.col]
    ELSE s.detachedHighlight

\* cell.classList.add / remove (CSS.highlight)
setHighlight(s, cell, on) ==
    IF cell.in = "table"
    THEN [s EXCEPT !.table[cell.row][cell.col] = on]
    ELSE [s EXCEPT !.detachedHighlight = on]

\* HTMLTableCellElement.cellIndex: index in the parent row, -1 without one.
cellIndex(cell) == IF cell.in = "td" THEN -1 ELSE cell.col - 1

\* cell.closest('tr')
closest_tr(cell) ==
    IF cell.in = "td" THEN null ELSE Ref(cell.in, cell.row, 0)

\* HTMLTableRowElement.rowIndex: index in table.rows, -1 outside a table.
rowIndex(row) == IF row.in = "table" THEN row.row - 1 ELSE -1

\* row.insertCell(index) raises IndexSizeError for index < -1 or > cells.length
insertCellThrows(row, index) == index < -1 \/ index > Len(row)

\* The position (1-based) the cell created by row.insertCell(index) takes:
\* -1 and cells.length append.
insertCellPosition(row, index) ==
    IF index = -1 \/ index = Len(row) THEN Len(row) + 1 ELSE index + 1

\* row.insertCell(index): the new cell carries no class yet.
insertCell(row, index) ==
    LET p == insertCellPosition(row, index)
    IN  SubSeq(row, 1, p - 1) \o <<FALSE>> \o SubSeq(row, p, Len(row))

\* row.deleteCell(index) raises IndexSizeError for index < -1 or >= cells.length
deleteCellThrows(row, index) == index < -1 \/ index >= Len(row)

\* The position (1-based) row.deleteCell(index) removes, 0 for none:
\* -1 removes the last cell, if there is one.
deleteCellPosition(row, index) ==
    IF index = -1 THEN Len(row) ELSE index + 1

deleteCell(row, index) ==
    LET p == deleteCellPosition(row, index)
    IN  IF p = 0 THEN row ELSE SubSeq(row, 1, p - 1) \o SubSeq(row, p + 1, Len(row))

\* The position (1-based) the row created by table.insertRow(index) takes.
insertRowPosition(tbl, index) ==
    IF index = -1 \/ index = Len(tbl) THEN Len(tbl) + 1 ELSE index + 1

\* table.insertRow(index): a new empty row.
tableInsertRow(tbl, index) ==
    LET p == insertRowPosition(tbl, index)
    IN  SubSeq(tbl, 1, p - 1) \o << << >> >> \o SubSeq(tbl, p, Len(tbl))

\* The position (1-based) table.deleteRow(index) removes, 0 for none.
deleteRowPosition(tbl, index) ==
    IF index = -1 THEN Len(tbl) ELSE index + 1

tableDeleteRow(tbl, index) ==
    LET p == deleteRowPosition(tbl, index)
    IN  IF p = 0 THEN tbl ELSE SubSeq(tbl, 1, p - 1) \o SubSeq(tbl, p + 1, Len(tbl))

----------------------------------------------------------------------------
\* The controller's methods.  Each maps a state record to
\* [state |-> the state it leaves, err |-> the error it raised or NoError].

\* set selectedCell(cell)
setSelectedCell(s, cell) ==
    LET s1 == IF s.selectedCell # null
              THEN setHighlight(s, s.selectedCell, FALSE) ELSE s
        s2 == [s1 EXCEPT !.selectedCell = cell]
    IN  IF s2.selectedCell # null THEN setHighlight(s2, s2.selectedCell, TRUE) ELSE s2

\* get selectedRow
selectedRow(s) ==
    IF s.selectedCell = null THEN null ELSE closest_tr(s.selectedCell)

\* direction = Math.min(Math.max(direction, 0), 1)
Clamp(direction) == Min(Max(direction, 0), 1)

\* for (let i = 0; i < rows.length; i++) { rows[i].insertCell(insertionIndex); ... }
RECURSIVE insertColumnLoop(_, _, _)
insertColumnLoop(s, i, insertionIndex) ==
    IF i > Len(s.table) THEN [state |-> s, err |-> NoError]
    ELSE IF insertCellThrows(s.table[i], insertionIndex)
    THEN [state |-> s, err |-> IndexSizeError]
    ELSE LET p == insertCellPosition(s.table[i], insertionIndex)
             sel == s.selectedCell
             moved == IF sel.in = "table" /\ sel.row = i /\ sel.col >= p
                      THEN Ref("table", i, sel.col + 1) ELSE sel
         IN  insertColumnLoop(
                 [s EXCEPT !.table[i] = insertCell(s.table[i], insertionIndex),
                           !.selectedCell = moved],
                 i + 1, insertionIndex)

insertColumn(s, direction) ==
    LET d == Clamp(direction)
        insertionIndex == IF s.selectedCell # null
                          THEN cellIndex(s.selectedCell) + d
                          ELSE 0
    IN  insertColumnLoop([s EXCEPT !.numberOfColumns = s.numberOfColumns + 1],
                         1, insertionIndex)

\* for (let i = 0; i < rows.length; i++) { rows[i].deleteCell(removalIndex); }
RECURSIVE deleteColumnLoop(_, _, _)
deleteColumnLoop(s, i, removalIndex) ==
    IF i > Len(s.table) THEN [state |-> s, err |-> NoError]
    ELSE IF deleteCellThrows(s.table[i], removalIndex)
    THEN [state |-> s, err |-> IndexSizeError]
    ELSE LET p == deleteCellPosition(s.table[i], removalIndex)
             sel == s.selectedCell
             inRow == sel.in = "table" /\ sel.row = i
             s1 == [s EXCEPT !.table[i] = deleteCell(s.table[i], removalIndex)]
             s2 == IF inRow /\ sel.col = p
                   THEN [s1 EXCEPT !.selectedCell = Ref("td", 0, 0),
                                   !.detachedHighlight = s.table[i][p]]
                   ELSE IF inRow /\ sel.col > p
                   THEN [s1 EXCEPT !.selectedCell = Ref("table", i, sel.col - 1)]
                   ELSE s1
         IN  deleteColumnLoop(s2, i + 1, removalIndex)

\* deleteColumn without its early return: with nothing selected it removes
\* the last column.
deleteColumn_NoEarlyReturn(s) ==
    LET removalIndex == IF s.selectedCell = null THEN -1 ELSE cellIndex(s.selectedCell)
    IN  deleteColumnLoop([s EXCEPT !.numberOfColumns = s.numberOfColumns - 1],
                         1, removalIndex)

deleteColumn(s) ==
    IF s.selectedCell = null THEN [state |-> s, err |-> NoError]
    ELSE LET removalIndex == cellIndex(s.selectedCell)
         IN  deleteColumnLoop([s EXCEPT !.numberOfColumns = s.numberOfColumns - 1],
                              1, removalIndex)

\* for (let i = 0; i < this._numberOfColumns; i++) { row.insertCell(); ... }
RECURSIVE _fillRow(_, _, _)
_fillRow(row, i, n) ==
    IF ~(i < n) THEN row
    ELSE _fillRow(insertCell(row, -1), i + 1, n)

\* Also yields row: the position (1-based) of the row it returns.
insertRow(s, direction) ==
    LET d == Clamp(direction)
        insertionIndex == IF selectedRow(s) # null
                          THEN rowIndex(selectedRow(s)) + d
                          ELSE 0
        p == insertRowPosition(s.table, insertionIndex)
        tbl == tableInsertRow(s.table, insertionIndex)
        sel == s.selectedCell
        moved == IF sel.in = "table" /\ sel.row >= p
                 THEN Ref("table", sel.row + 1, sel.col) ELSE sel
    IN  [state |-> [s EXCEPT !.table = [tbl EXCEPT ![p] = _fillRow(tbl[p], 0, s.numberOfColumns)],
                             !.selectedCell = moved,
                             !.numberOfRows = s.numberOfRows + 1],
         err |-> NoError,
         row |-> p]

deleteRow_ClearsSelection(s) ==
    IF selectedRow(s) = null THEN [state |-> s, err |-> NoError]
    ELSE LET removalIndex == rowIndex(selectedRow(s))
         IN  [state |-> [s EXCEPT !.table = tableDeleteRow(s.table, removalIndex),
                                  !.numberOfRows = s.numberOfRows - 1,
                                  !.selectedCell = null,
                                  !.detachedHighlight = FALSE],
              err |-> NoError]

deleteRow(s) ==
    IF selectedRow(s) = null THEN [state |-> s, err |-> NoError]
    ELSE LET removalIndex == rowIndex(selectedRow(s))
             p == deleteRowPosition(s.table, removalIndex)
             sel == s.selectedCell
             s1 == [s EXCEPT !.table = tableDeleteRow(s.table, removalIndex),
                             !.numberOfRows = s.numberOfRows - 1]
             s2 == IF sel.in = "table" /\ sel.row = p
                   THEN [s1 EXCEPT !.selectedCell = Ref("tr", 0, sel.col),
                                   !.detachedHighlight = s.table[p][sel.col]]
                   ELSE IF sel.in = "table" /\ sel.row > p
                   THEN [s1 EXCEPT !.selectedCell = Ref("table", sel.row - 1, sel.col)]
                   ELSE s1
         IN  [state |-> s2, err |-> NoError]

\* The default value of insertColumn's and of insertRow's direction parameter.
insertColumnDefault == 0
insertRowDefault == 0

insertColumnAfter(s) == insertColumn(s, 1)

insertColumnBefore(s) == insertColumn(s, insertColumnDefault)

insertRowBefore_PassesAfter(s) == insertRow(s, 1)

insertRowBefore(s) == insertRow(s, insertRowDefault)

insertRowAfter(s) == insertRow(s, 1)

----------------------------------------------------------------------------
\* Event handlers.  An event target is the cell the event concerns (for
\* focus, blur and keydown: the editable area inside that cell; for click:
\* the cell itself), or null for any other element.

\* Listeners registered by _attachEvents.
_attachEvents == {"focus", "keydown", "click", "container keydown"}

_focusEditField(s, target) ==
    IF target = null THEN s
    ELSE [s EXCEPT !.selectedCell = target]

_blurEditField(s, target) ==
    IF target = null THEN s
    ELSE [s EXCEPT !.selectedCell = null]

\* TRUE iff the handler calls event.preventDefault()
_pressedEnterInEditField(target, key, shiftKey) ==
    IF target = null THEN FALSE
    ELSE key = "Enter" /\ ~shiftKey

\* content.focus() dispatches a focus event on the cell's editable area,
\* which the capturing focus listener handles before focus() returns.
_clickedOnCell(s, target) ==
    IF target = null THEN s
    ELSE _focusEditField(s, target)

\* The identifiers in scope in _containerEnterPressed: the imports and
\* declarations of the module, the method's parameter and its local.
Scope == {"create", "getCoords", "getSideByCoords", "CSS", "Table",
          "event", "newRow"}

\* dispatched: the number of events handed to event.target.dispatchEvent.
\* The event's detail is built before dispatchEvent is called.
_containerEnterPressed(s) ==
    LET r == insertRow(s, 1)
        newRow == r.state.table[r.row]
    IN  IF Len(newRow) = 0
        THEN \* newRow.cells[0] is undefined
             [state |-> r.state, err |-> TypeError, dispatched |-> 0]
        ELSE LET clicked == _clickedOnCell(r.state, Ref("table", r.row, 1))
             IN  IF "side" \in Scope
                 THEN [state |-> clicked, err |-> NoError, dispatched |-> 1]
                 ELSE [state |-> clicked, err |-> ReferenceError,
                       dispatched |-> 0]

_containerKeydown(s, key, ctrlKey) ==
    IF key = "Enter" /\ ctrlKey THEN _containerEnterPressed(s)
    ELSE [state |-> s, err |-> NoError, dispatched |-> 0]

----------------------------------------------------------------------------
\* The state machine.

Call(op, arg, err) == [op |-> op, arg |-> arg, err |-> err]

Apply(s) ==
    LET c == Collect(s)
    IN  /\ table' = c.table
        /\ detachedHighlight' = c.detachedHighlight
        /\ selectedCell' = c.selectedCell
        /\ numberOfRows' = c.numberOfRows
        /\ numberOfColumns' = c.numberOfColumns

\* constructor
Init ==
    /\ table = << >>
    /\ detachedHighlight = FALSE
    /\ selectedCell = null
    /\ numberOfRows = 0
    /\ numberOfColumns = 0
    /\ dispatched = 0
    /\ last = Call("constructor", 0, NoError)

Targets == CellRefs(table) \cup {null}

\* The exploration stops growing the grid at MaxRows rows, MaxCols columns
\* and MaxCells cells.
CanInsertRow ==
    /\ Len(table) < MaxRows
    /\ Cardinality(CellRefs(table)) + Max(numberOfColumns, 0) <= MaxCells

CanInsertColumn ==
    /\ numberOfColumns < MaxCols
    /\ \A i \in 1..Len(table) : Len(table[i]) < MaxCols
    /\ Cardinality(CellRefs(table)) + Len(table) <= MaxCells

\* The blur and keydown handlers read only the class of their target: one
\* editable area stands for all of them.
FieldTargets ==
    IF CellRefs(table) = {} THEN {null}
    ELSE {null, CHOOSE cell \in CellRefs(table) : TRUE}

\* 1 when the event target carries the class the handlers look for
IsField(target) == IF target = null THEN 0 ELSE 1

\* Key presses: Ctrl+Enter, Enter, Shift+Enter and a printable key.
KeyEvents ==
    {[key |-> "Enter", ctrlKey |-> TRUE, shiftKey |-> FALSE],
     [key |-> "Enter", ctrlKey |-> FALSE, shiftKey |-> FALSE],
     [key |-> "Enter", ctrlKey |-> FALSE, shiftKey |-> TRUE],
     [key |-> "a", ctrlKey |-> TRUE, shiftKey |-> FALSE]}

SetSelectedCell ==
    \E cell \in Targets :
        /\ Apply(setSelectedCell(State, cell))
        /\ dispatched' = 0
        /\ last' = Call("selectedCell", 0, NoError)

InsertColumn ==
    \E direction \in Directions :
        /\ CanInsertColumn
        /\ LET r == insertColumn(State, direction)
           IN  /\ Apply(r.state)
               /\ dispatched' = 0
               /\ last' = Call("insertColumn", direction, r.err)

DeleteColumn ==
    /\ numberOfColumns > -MaxSkew
    /\ LET r == deleteColumn(State)
       IN  /\ Apply(r.state)
           /\ dispatched' = 0
           /\ last' = Call("deleteColumn", 0, r.err)

InsertRow ==
    \E direction \in Directions :
        /\ CanInsertRow
        /\ LET r == insertRow(State, direction)
           IN  /\ Apply(r.state)
               /\ dispatched' = 0
               /\ last' = Call("insertRow", direction, r.err)

DeleteRow ==
    /\ numberOfRows > -MaxSkew
    /\ LET r == deleteRow(State)
       IN  /\ Apply(r.state)
           /\ dispatched' = 0
           /\ last' = Call("deleteRow", 0, r.err)

Focus ==
    \E target \in Targets :
        /\ Apply(IF "focus" \in _attachEvents
                 THEN _focusEditField(State, target) ELSE State)
        /\ dispatched' = 0
        /\ last' = Call("focus", IsField(target), NoError)

Blur ==
    \E target \in FieldTargets :
        /\ Apply(IF "blur" \in _attachEvents
                 THEN _blurEditField(State, target) ELSE State)
        /\ dispatched' = 0
        /\ last' = Call("blur", IsField(target), NoError)

Click ==
    \E target \in Targets :
        /\ Apply(IF "click" \in _attachEvents
                 THEN _clickedOnCell(State, target) ELSE State)
        /\ dispatched' = 0
        /\ last' = Call("click", IsField(target), NoError)

\* A keydown bubbles from its target through the table to the wrapper.
Keydown ==
    \E target \in FieldTargets, event \in KeyEvents :
        /\ (event.key = "Enter" /\ event.ctrlKey) => CanInsertRow
        /\ LET prevented == _pressedEnterInEditField(target, event.key, event.shiftKey)
               r == _containerKeydown(State, event.key, event.ctrlKey)
           IN  /\ Apply(r.state)
               /\ dispatched' = r.dispatched
               /\ last' = Call("keydown", IF prevented THEN 1 ELSE 0, r.err)

Next ==
    \/ SetSelectedCell
    \/ InsertColumn
    \/ DeleteColumn
    \/ InsertRow
    \/ DeleteRow
    \/ Focus
    \/ Blur
    \/ Click
    \/ Keydown

Spec == Init /\ [][Next]_vars

\* A host that inserts through the convenience methods only.
InsertColumnAfter ==
    /\ CanInsertColumn
    /\ LET r == insertColumnAfter(State)
       IN  /\ Apply(r.state)
           /\ dispatched' = 0
           /\ last' = Call("insertColumnAfter", 0, r.err)

InsertColumnBefore ==
    /\ CanInsertColumn
    /\ LET r == insertColumnBefore(State)
       IN  /\ Apply(r.state)
           /\ dispatched' = 0
           /\ last' = Call("insertColumnBefore", 0, r.err)

InsertRowBefore ==
    /\ CanInsertRow
    /\ LET r == insertRowBefore(State)
       IN  /\ Apply(r.state)
           /\ dispatched' = 0
           /\ last' = Call("insertRowBefore", 0, r.err)

InsertRowAfter ==
    /\ CanInsertRow
    /\ LET r == insertRowAfter(State)
       IN  /\ Apply(r.state)
           /\ dispatched' = 0
           /\ last' = Call("insertRowAfter", 0, r.err)

NextHelpers ==
    \/ SetSelectedCell
    \/ InsertColumnAfter
    \/ InsertColumnBefore
    \/ InsertRowBefore
    \/ InsertRowAfter
    \/ DeleteColumn
    \/ DeleteRow
    \/ Focus
    \/ Blur
    \/ Click
    \/ Keydown

SpecHelpers == Init /\ [][NextHelpers]_vars

----------------------------------------------------------------------------
\* Properties.

Mutations == {"insertRow", "insertColumn", "deleteRow", "deleteColumn"}

\* seq without its p-th element
WithoutIndex(seq, p) ==
    [i \in 1..(Len(seq) - 1) |-> IF i < p THEN seq[i] ELSE seq[i + 1]]

\* The highlighted cells of the grid.
Highlighted == {cell \in CellRefs(table) : hasHighlight(State, cell)}

\* C1: every row of the grid has exactly numberOfColumns cells.
C1_EveryRowHasNumberOfColumnsCells ==
    \A i \in 1..Len(table) : Len(table[i]) = numberOfColumns

\* C2: numberOfRows equals the number of rows currently in the grid.
C2_NumberOfRowsIsLiveRowCount == numberOfRows = Len(table)

\* C3: at most one cell carries the highlight marker.
C3_AtMostOneHighlight == Cardinality(Highlighted) <= 1

\* C4: insertRow, insertColumn, deleteRow and deleteColumn never raise an
\* error, whatever state they are called in.
C4_MutationsNeverRaise == last.op \in Mutations => last.err = NoError

\* C5: with no cell selected, deleteRow() and deleteColumn() change neither
\* the grid, nor numberOfRows, nor numberOfColumns, nor the selection.
C5_DeleteWithoutSelectionIsNoOp ==
    [][(last'.op \in {"deleteRow", "deleteColumn"} /\ selectedCell = null)
        => /\ table' = table
           /\ numberOfRows' = numberOfRows
           /\ numberOfColumns' = numberOfColumns
           /\ selectedCell' = null
           /\ last'.err = NoError]_vars

\* deleteColumn() was just called with nothing selected on a grid that has
\* rows and cells.
C5_Witness ==
    /\ last.op = "deleteColumn"
    /\ selectedCell = null
    /\ Len(table) > 0
    /\ \A i \in 1..Len(table) : Len(table[i]) > 0

\* C6: with a cell selected, deleteRow() removes exactly the grid row that
\* contains the selected cell and decrements numberOfRows.
C6_DeleteRowRemovesSelectedRow ==
    [][(last'.op = "deleteRow" /\ selectedCell # null)
        => /\ selectedCell.in = "table"
           /\ table' = WithoutIndex(table, selectedCell.row)
           /\ numberOfRows' = numberOfRows - 1]_vars

\* C7: with a cell selected, deleteColumn() removes from every row exactly
\* the cell at the selected cell's column index and decrements
\* numberOfColumns.
C7_DeleteColumnRemovesSelectedColumn ==
    [][(last'.op = "deleteColumn" /\ selectedCell # null)
        => /\ selectedCell.in \in {"table", "tr"}
           /\ Len(table') = Len(table)
           /\ \A i \in 1..Len(table) :
                  /\ selectedCell.col <= Len(table[i])
                  /\ table'[i] = WithoutIndex(table[i], selectedCell.col)
           /\ numberOfColumns' = numberOfColumns - 1]_vars

\* C8: insertRow(direction) inserts one new row of numberOfColumns cells at
\* index selectedRow.index + d (d the clamped direction) when a row is
\* selected and at index 0 otherwise, increments numberOfRows and keeps the
\* existing rows in order.
C8_InsertRowPosition ==
    [][last'.op = "insertRow"
        => LET d == IF last'.arg <= 0 THEN 0 ELSE 1
               index == IF selectedCell.in = "table" THEN (selectedCell.row - 1) + d
                        ELSE IF selectedCell.in = "tr" THEN -1 + d
                        ELSE 0
           IN  /\ index \in 0..Len(table)
               /\ Len(table') = Len(table) + 1
               /\ Len(table'[index + 1]) = numberOfColumns
               /\ WithoutIndex(table', index + 1) = table
               /\ numberOfRows' = numberOfRows + 1]_vars

\* C9: insertColumn(direction) inserts one new empty cell into every row at
\* column index selectedCell.columnIndex + d when a cell is selected and at
\* index 0 otherwise, and increments numberOfColumns; a selected cell at
\* column c moves to c + 1 for d = 0 and stays for d = 1.
C9_InsertColumnPosition ==
    [][last'.op = "insertColumn"
        => LET d == IF last'.arg <= 0 THEN 0 ELSE 1
               index == IF selectedCell = null THEN 0
                        ELSE IF selectedCell.in = "td" THEN -1 + d
                        ELSE (selectedCell.col - 1) + d
           IN  /\ Len(table') = Len(table)
               /\ \A i \in 1..Len(table) :
                      /\ index \in 0..Len(table[i])
                      /\ Len(table'[i]) = Len(table[i]) + 1
                      /\ table'[i][index + 1] = FALSE
                      /\ WithoutIndex(table'[i], index + 1) = table[i]
               /\ numberOfColumns' = numberOfColumns + 1
               /\ selectedCell.in = "table" =>
                      selectedCell' = Ref("table", selectedCell.row,
                                          selectedCell.col + (1 - d))]_vars

\* C10: when focus leaves an editable area, selectedCell becomes none.
C10_BlurClearsSelection ==
    [][(last'.op = "blur" /\ last'.arg = 1) => selectedCell' = null]_vars

\* A step in which Ctrl+Enter was pressed inside an editable area: the
\* wrapper's handler always ends in an error, no other key press does.
CtrlEnterInField ==
    last'.op = "keydown" /\ last'.arg = 1 /\ last'.err # NoError

\* C11: Ctrl+Enter inside an editable area inserts a new row directly after
\* the row of the selected cell, and the first cell of the new row becomes
\* the focused, selected cell.
C11_CtrlEnterAddsRowBelowAndSelectsIt ==
    [][(CtrlEnterInField /\ selectedCell.in = "table")
        => /\ Len(table') = Len(table) + 1
           /\ WithoutIndex(table', selectedCell.row + 1) = table
           /\ selectedCell' = Ref("table", selectedCell.row + 1, 1)]_vars

\* C12: every Ctrl+Enter key press in the wrapper that creates a new row
\* dispatches exactly one 'mouseInActivatingArea' event, whose detail
\* carries a defined side.
C12_CtrlEnterNotifiesHostOnce ==
    [][(CtrlEnterInField /\ Len(table') = Len(table) + 1)
        => dispatched' = 1]_vars

\* C13: once deleteColumn() has removed the column of the selected cell, so
\* that the selected cell is no longer part of the grid, a further
\* deleteColumn() removes no cell and leaves numberOfColumns unchanged.
C13_DeleteColumnDetachedIsNoOp ==
    [][(last'.op = "deleteColumn" /\ selectedCell.in = "td")
        => /\ table' = table
           /\ numberOfColumns' = numberOfColumns]_vars

\* C14: selectedRow is the row of the grid that contains the selected cell,
\* and it is none when no cell is selected.
C14_SelectedRowIsGridRowOfSelection ==
    /\ selectedCell # null
        => selectedRow(State) = Ref("table", selectedCell.row, 0)
    /\ selectedCell = null => selectedRow(State) = null

\* C15: numberOfRows and numberOfColumns are never negative.
C15_CountersNeverNegative ==
    numberOfRows >= 0 /\ numberOfColumns >= 0

\* The steps that run an event handler.
Events == {"focus", "blur", "click", "keydown"}

\* C17: whenever a cell is selected it carries the highlight marker; in
\* particular the cell whose editable area received focus is selected and
\* highlighted.
C17_SelectedCellIsHighlighted ==
    selectedCell # null => hasHighlight(State, selectedCell)

\* C18: every event handler either performs all of its steps or changes
\* nothing: a handler that ends in an error has left the table, the
\* counters and the selection as they were.
C18_HandlersAreAllOrNothing ==
    [][(last'.op \in Events /\ last'.err # NoError)
        => /\ table' = table
           /\ numberOfRows' = numberOfRows
           /\ numberOfColumns' = numberOfColumns
           /\ selectedCell' = selectedCell]_vars

\* The new row of a step lies directly below the selected row, which stays
\* where it was.
RowAddedBelowSelection ==
    /\ Len(table') = Len(table) + 1
    /\ WithoutIndex(table', selectedCell.row + 1) = table
    /\ selectedCell' = selectedCell

\* The new row of a step lies directly above the selected row, which moves
\* down by one.
RowAddedAboveSelection ==
    /\ Len(table') = Len(table) + 1
    /\ WithoutIndex(table', selectedCell.row) = table
    /\ selectedCell' = Ref("table", selectedCell.row + 1, selectedCell.col)

\* The new cell of the selected row lies directly right of the selected
\* cell, which stays where it was.
CellAddedRightOfSelection ==
    /\ WithoutIndex(table'[selectedCell.row], selectedCell.col + 1)
         = table[selectedCell.row]
    /\ selectedCell' = selectedCell

\* The new cell of the selected row lies directly left of the selected cell,
\* which moves right by one.
CellAddedLeftOfSelection ==
    /\ WithoutIndex(table'[selectedCell.row], selectedCell.col)
         = table[selectedCell.row]
    /\ selectedCell' = Ref("table", selectedCell.row, selectedCell.col + 1)

C19_DeleteKeepsSelectedCell ==
    [][last'.op \in {"deleteRow", "deleteColumn"}
        => /\ (selectedCell = null) <=> (selectedCell' = null)
           /\ selectedCell.in \in {"tr", "td"}
                => /\ selectedCell' = selectedCell
                   /\ detachedHighlight' = detachedHighlight
           /\ (selectedCell.in = "table" /\ last'.op = "deleteRow")
                => /\ selectedCell' = Ref("tr", 0, selectedCell.col)
                   /\ detachedHighlight'
                        = table[selectedCell.row][selectedCell.col]
           /\ (selectedCell.in = "table" /\ last'.op = "deleteColumn"
                 /\ last'.err = NoError)
                => /\ selectedCell' = Ref("td", 0, 0)
                   /\ detachedHighlight'
                        = table[selectedCell.row][selectedCell.col]]_vars

\* deleteRow() has removed the only row of the grid, which held the selected
\* cell: the cell is still selected, in the removed row.
C19_Witness ==
    /\ last.op = "deleteRow"
    /\ selectedCell.in = "tr"
    /\ numberOfRows = 0
    /\ Len(table) = 0

\* Both grid invariants: every row has numberOfColumns cells and
\* numberOfRows is the number of rows.
GridInvariants ==
    /\ \A i \in 1..Len(table) : Len(table[i]) = numberOfColumns
    /\ numberOfRows = Len(table)

\* The change of the counters that the call of a step is meant to make.
CountersChangeByOne ==
    LET dRows == numberOfRows' - numberOfRows
        dCols == numberOfColumns' - numberOfColumns
    IN  /\ last'.op = "insertRow" => (dRows = 1 /\ dCols = 0)
        /\ last'.op = "insertColumn" => (dRows = 0 /\ dCols = 1)
        /\ last'.op = "deleteRow"
             => (dRows = (IF selectedCell = null THEN 0 ELSE -1) /\ dCols = 0)
        /\ last'.op = "deleteColumn"
             => (dRows = 0 /\ dCols = (IF selectedCell = null THEN 0 ELSE -1))

\* C20: from a state in which selectedCell is none or a cell of the grid and
\* both grid invariants hold, an insertRow, insertColumn, deleteRow or
\* deleteColumn call completes without error, changes exactly one counter by
\* exactly one (none for a delete without selection) and keeps both
\* invariants.
C20_MutationFromConsistentState ==
    [][(/\ last'.op \in Mutations
        /\ selectedCell.in \in {"null", "table"}
        /\ GridInvariants)
        => /\ last'.err = NoError
           /\ CountersChangeByOne
           /\ GridInvariants']_vars

====
